---- MODULE Spec2Model ----
(***************************************************************************)
(* Model of src/main.py: the POST /scrape handler scrape_pdfs of the       *)
(* Intelbras PDF scraper, with its nested helper extract_docs.             *)
(*                                                                         *)
(* Strings are sequences of one-character strings, so that .lower(),       *)
(* .strip(), `in` and the CSS suffix match [href$=".pdf"] are computed     *)
(* character by character.  An optional value (Python None, a missing      *)
(* HTML attribute, a find() that returns None) is a sequence of length 0   *)
(* or 1: None is << >>, a present value x is << x >>.                      *)
(***************************************************************************)
EXTENDS Naturals, Sequences, FiniteSets

VARIABLES
    pc,          \* position of the request in scrape_pdfs
    url,         \* the url field of the request body
    outcome,     \* what requests.get produced (a response or an exception)
    fetchCount,  \* number of calls of requests.get
    parseCount,  \* number of calls of BeautifulSoup
    soup,        \* the parsed page
    manuals,     \* the local list manuals
    datasheets,  \* the local list datasheets
    ranFallback, \* which of the two fallback loops were entered
    result,      \* what the request ended with
    epc,         \* position of a stand-alone call of extract_docs
    section_li,  \* the argument of that call
    docs         \* the list that call returned

vars == <<pc, url, outcome, fetchCount, parseCount, soup, manuals, datasheets,
          ranFallback, result, epc, section_li, docs>>

scrapeVars == <<pc, url, outcome, fetchCount, parseCount, soup, manuals,
                datasheets, ranFallback, result>>

extractVars == <<epc, section_li, docs>>

(***************************************************************************)
(* Bounds of the model.                                                    *)
(***************************************************************************)
\* rows of the section handed to a stand-alone call of extract_docs
MaxRows == 2
\* rows of each section of a fetched page
MaxSecRows == 2
\* links of a fetched page that stand outside the two sections
MaxLinks == 2

(***************************************************************************)
(* Optional values.                                                        *)
(***************************************************************************)
None == << >>

Some(x) == << x >>

IsSome(o) == Len(o) = 1

Get(o) == o[1]

(***************************************************************************)
(* Strings and the string operations the handler uses.                     *)
(***************************************************************************)
UpperLetters ==
    <<"A", "B", "C", "D", "E", "F", "G", "H", "I", "J", "K", "L", "M",
      "N", "O", "P", "Q", "R", "S", "T", "U", "V", "W", "X", "Y", "Z">>

LowerLetters ==
    <<"a", "b", "c", "d", "e", "f", "g", "h", "i", "j", "k", "l", "m",
      "n", "o", "p", "q", "r", "s", "t", "u", "v", "w", "x", "y", "z">>

Whitespace == {" ", "\n", "\t"}

LowerChar(c) ==
    IF \E i \in 1..Len(UpperLetters) : UpperLetters[i] = c
    THEN LowerLetters[CHOOSE i \in 1..Len(UpperLetters) : UpperLetters[i] = c]
    ELSE c

\* str.lower()
Lower(s) == [i \in 1..Len(s) |-> LowerChar(s[i])]

\* sub in s
Contains(s, sub) ==
    \E i \in 0..Len(s) :
        /\ i + Len(sub) <= Len(s)
        /\ SubSeq(s, i + 1, i + Len(sub)) = sub

\* the CSS attribute selector [attr$="suf"]: a case-sensitive suffix match
EndsWith(s, suf) ==
    /\ Len(suf) <= Len(s)
    /\ SubSeq(s, Len(s) - Len(suf) + 1, Len(s)) = suf

StartsWith(s, pre) ==
    /\ Len(pre) <= Len(s)
    /\ SubSeq(s, 1, Len(pre)) = pre

\* str.strip()
Strip(s) ==
    LET keep == {i \in 1..Len(s) : s[i] \notin Whitespace}
    IN  IF keep = {} THEN << >>
        ELSE SubSeq(s, CHOOSE i \in keep : \A j \in keep : i <= j,
                       CHOOSE i \in keep : \A j \in keep : j <= i)

RECURSIVE Join(_)
\* ''.join(list of strings)
Join(ss) == IF ss = << >> THEN << >> ELSE Head(ss) \o Join(Tail(ss))

KwManual == <<"m", "a", "n", "u", "a", "l">>

KwFichaTecnica == <<"f", "i", "c", "h", "a", "-", "t", "e", "c", "n", "i", "c", "a">>

KwDatasheet == <<"d", "a", "t", "a", "s", "h", "e", "e", "t">>

PdfSuffix == <<".", "p", "d", "f">>

SchemeHttp == <<"h", "t", "t", "p", ":", "/", "/">>

SchemeHttps == <<"h", "t", "t", "p", "s", ":", "/", "/">>

ErrPrefix ==
    <<"E", "r", "r", "o", " ", "a", "o", " ", "b", "u", "s", "c", "a", "r", " ",
      "a", " ", "p", "á", "g", "i", "n", "a", ":", " ">>

(***************************************************************************)
(* pydantic's HttpUrl, as far as the handler depends on it: a value is     *)
(* accepted when it is an absolute http or https URL with a host, and      *)
(* rejected with a validation error otherwise (a site-relative path, an    *)
(* empty string, another scheme).                                          *)
(***************************************************************************)
HttpUrl(s) ==
    \/ /\ StartsWith(s, SchemeHttp)
       /\ Len(s) > Len(SchemeHttp)
       /\ s[Len(SchemeHttp) + 1] # "/"
    \/ /\ StartsWith(s, SchemeHttps)
       /\ Len(s) > Len(SchemeHttps)
       /\ s[Len(SchemeHttps) + 1] # "/"

(***************************************************************************)
(* Strings of the inputs.                                                  *)
(***************************************************************************)
UrlProduct == <<"h", "t", "t", "p", "s", ":", "/", "/", "h", "/", "p">>

UrlNoScheme == <<"h", "/", "p">>

UrlFtp == <<"f", "t", "p", ":", "/", "/", "h", "/", "p">>

HrefAbsPdf == <<"h", "t", "t", "p", ":", "/", "/", "h", "/", "m", ".", "p", "d", "f">>

HrefAbsPdf2 == <<"h", "t", "t", "p", ":", "/", "/", "h", "/", "n", ".", "p", "d", "f">>

HrefRelManual ==
    <<"/", "f", "i", "l", "e", "s", "/", "m", "a", "n", "u", "a", "l", "-", "x",
      ".", "p", "d", "f">>

HrefRelDs == <<"/", "f", "i", "l", "e", "s", "/", "d", "s", "1", ".", "p", "d", "f">>

HrefAbsDatasheet ==
    <<"h", "t", "t", "p", ":", "/", "/", "h", "/", "D", "a", "t", "a", "S", "h",
      "e", "e", "t", ".", "p", "d", "f">>

HrefAbsUpperExt == <<"h", "t", "t", "p", ":", "/", "/", "h", "/", "m", ".", "P", "D", "F">>

HrefEmpty == << >>

ActManual == <<"M", "a", "n", "u", "a", "l", "-", "P", "D", "F">>

ActFicha == <<"F", "i", "c", "h", "a", "-", "T", "e", "c", "n", "i", "c", "a">>

ActDatasheet == <<"d", "a", "t", "a", "s", "h", "e", "e", "t">>

TxtTitle == <<" ", "M", "a", "n", "u", "a", "l", " ", "X", "\n">>

TxtTitleBare == <<"M", "a", "n", "u", "a", "l", " ", "X">>

TxtDate == <<" ", "1", "2", "/", "2", "0", "2", "3", " ">>

(***************************************************************************)
(* The parsed page.                                                        *)
(*   anchor: an <a> element: whether it carries the class                  *)
(*           product-help-and-download--download-link, its href and its    *)
(*           data-ga-action attribute (each optional);                     *)
(*   span:   the children of a <span class="text--300">, in order: a text  *)
(*           node, or the text of a nested element (the date fragment);    *)
(*   row:    a <tr>: whether it lies in a table.unstriped tbody, its       *)
(*           optional title span and its anchors in order;                 *)
(*   page:   the optional <li data-ga-name="manuais">, the optional        *)
(*           <li data-ga-name="ficha-tecnica"> and the anchors after them. *)
(***************************************************************************)
Anchor(c, h, a) == [cls |-> c, href |-> h, action |-> a]

TextNode(s) == [nested |-> FALSE, text |-> s]

DateFragment(s) == [nested |-> TRUE, text |-> s]

Row(u, s, as) == [unstriped |-> u, span |-> s, anchors |-> as]

SeqsUpTo(S, n) == UNION {[1..k -> S] : k \in 0..n}

SpanPool ==
    { None,
      Some(<<TextNode(TxtTitle)>>),
      Some(<<TextNode(TxtTitleBare), DateFragment(TxtDate)>>) }

RowAnchorsPool ==
    { << >>,
      <<Anchor(FALSE, None, None)>>,
      <<Anchor(FALSE, Some(HrefAbsPdf), None)>>,
      <<Anchor(FALSE, Some(HrefEmpty), None)>>,
      <<Anchor(FALSE, None, None), Anchor(TRUE, Some(HrefRelManual), Some(ActManual))>> }

RowPool == {Row(u, s, as) : u \in BOOLEAN, s \in SpanPool, as \in RowAnchorsPool}

SectionPool == SeqsUpTo(RowPool, MaxRows)

(***************************************************************************)
(* extract_docs (lines 59-73).                                             *)
(***************************************************************************)
\* section_li.select("table.unstriped tbody tr")
SelectRows(rows) == SelectSeq(rows, LAMBDA tr : tr.unstriped)

\* span.strings: every string below the span, nested elements included
Strings(span) == [i \in 1..Len(span) |-> span[i].text]

\* tr.find('a', href=True)
FindLink(tr) ==
    LET with == SelectSeq(tr.anchors, LAMBDA a : IsSome(a.href))
    IN  IF with = << >> THEN None ELSE Some(Head(with))

Doc(title, href) == [title |-> title, url |-> href]

RECURSIVE LoopRows(_)
LoopRows(trs) ==
    IF trs = << >> THEN << >>
    ELSE LET tr == Head(trs)
             a  == FindLink(tr)
         IN  IF ~IsSome(tr.span) THEN LoopRows(Tail(trs))
             ELSE IF ~IsSome(a) THEN LoopRows(Tail(trs))
             ELSE <<Doc(Some(Strip(Join(Strings(Get(tr.span))))), Get(Get(a).href))>>
                  \o LoopRows(Tail(trs))

RECURSIVE LoopRowsBreak(_)
\* a loop that leaves at the first row it cannot use
LoopRowsBreak(trs) ==
    IF trs = << >> THEN << >>
    ELSE LET tr == Head(trs)
             a  == FindLink(tr)
         IN  IF ~IsSome(tr.span) \/ ~IsSome(a) THEN << >>
             ELSE <<Doc(Some(Strip(Join(Strings(Get(tr.span))))), Get(Get(a).href))>>
                  \o LoopRowsBreak(Tail(trs))

\* extract_docs with that loop
extract_docs_break(rows) == LoopRowsBreak(SelectRows(rows))

extract_docs(rows) == LoopRows(SelectRows(rows))

(***************************************************************************)
(* A stand-alone call of extract_docs on a section.                        *)
(***************************************************************************)
InitExtract ==
    /\ epc = "call"
    /\ section_li \in SectionPool
    /\ docs = << >>
    /\ pc = "idle"
    /\ url = << >>
    /\ outcome = [kind |-> "none"]
    /\ fetchCount = 0
    /\ parseCount = 0
    /\ soup = << >>
    /\ manuals = << >>
    /\ datasheets = << >>
    /\ ranFallback = [manuals |-> FALSE, datasheets |-> FALSE]
    /\ result = [kind |-> "none"]

CallExtractDocs ==
    /\ epc = "call"
    /\ docs' = extract_docs(section_li)
    /\ epc' = "return"
    /\ UNCHANGED section_li

(***************************************************************************)
(* The pages a fetch can return.                                           *)
(***************************************************************************)
\* a usable row whose link would also pass the manuals fallback filter
RowGood ==
    Row(TRUE, Some(<<TextNode(TxtTitle)>>),
        <<Anchor(TRUE, Some(HrefAbsPdf), Some(ActManual))>>)

\* a usable row with a date fragment in its title and a site-relative link
RowRelDated ==
    Row(TRUE, Some(<<TextNode(TxtTitleBare), DateFragment(TxtDate)>>),
        <<Anchor(FALSE, Some(HrefRelManual), None)>>)

PageRowPool == {RowGood, RowRelDated}

LinkPool ==
    { Anchor(TRUE, Some(HrefAbsPdf2), Some(ActManual)),
      Anchor(TRUE, Some(HrefRelDs), Some(ActDatasheet)),
      Anchor(TRUE, Some(HrefAbsDatasheet), None),
      Anchor(TRUE, Some(HrefRelDs), Some(ActFicha)),
      Anchor(FALSE, Some(HrefAbsPdf), Some(ActManual)),
      Anchor(TRUE, Some(HrefAbsUpperExt), Some(ActManual)) }

PageSectionPool == {None} \cup {Some(rows) : rows \in SeqsUpTo(PageRowPool, MaxSecRows)}

Page(m, f, ls) == [manuais |-> m, ficha |-> f, links |-> ls]

EmptyPage == Page(None, None, << >>)

PagePool ==
    {Page(m, f, ls) : m \in PageSectionPool, f \in PageSectionPool,
                      ls \in SeqsUpTo(LinkPool, MaxLinks)}

UrlPool == {UrlProduct, UrlNoScheme, UrlFtp, << >>}

(***************************************************************************)
(* What requests.get can produce: a response with a status and a body, or  *)
(* an exception of the requests.RequestException family.                   *)
(***************************************************************************)
Response(status, text) == [kind |-> "Response", status |-> status, text |-> text]

Raised(exc) == [kind |-> exc, status |-> 0, text |-> EmptyPage]

NoOutcome == [kind |-> "none", status |-> 0, text |-> EmptyPage]

FetchOutcomes ==
    {Response(200, p) : p \in PagePool}
        \cup {Response(304, EmptyPage), Response(404, EmptyPage), Response(500, EmptyPage)}
        \cup {Raised("ConnectionError"), Raised("Timeout")}

\* Response.raise_for_status(): HTTPError for a 4xx or a 5xx status, and for
\* no other status
RaiseForStatus(o) == o.kind = "Response" /\ 400 <= o.status /\ o.status < 600

\* the try block of lines 44-50 ends in the except clause
FetchRaises(o) == o.kind # "Response" \/ RaiseForStatus(o)

\* str(e) of the exception caught at line 48
Describe(o) == IF o.kind = "Response" THEN [exc |-> "HTTPError", status |-> o.status]
               ELSE [exc |-> o.kind, status |-> 0]

(***************************************************************************)
(* Results of a request.                                                   *)
(***************************************************************************)
NoResult == [kind |-> "none"]

RequestValidationError == [kind |-> "RequestValidationError", status |-> 422]

HTTPException(code, cause) ==
    [kind |-> "HTTPException", status |-> code,
     detail |-> [prefix |-> ErrPrefix, cause |-> cause]]

ResponseValidationError == [kind |-> "ValidationError", status |-> 500]

ScrapeResponse(m, d) ==
    [kind |-> "ScrapeResponse", status |-> 200, manuals |-> m, datasheets |-> d]

(***************************************************************************)
(* The two tiers of scrape_pdfs (lines 75-95).                             *)
(***************************************************************************)
RECURSIVE RowsAnchors(_)
RowsAnchors(rows) ==
    IF rows = << >> THEN << >> ELSE Head(rows).anchors \o RowsAnchors(Tail(rows))

SectionAnchors(sec) == IF IsSome(sec) THEN RowsAnchors(Get(sec)) ELSE << >>

\* every <a> of the page in document order
AllAnchors(page) ==
    SectionAnchors(page.manuais) \o SectionAnchors(page.ficha) \o page.links

\* a selector that forgets the download-link class
SelectAnyPdfLinks(page) ==
    SelectSeq(AllAnchors(page),
              LAMBDA a : IsSome(a.href) /\ EndsWith(Get(a.href), PdfSuffix))

\* soup.select('a.product-help-and-download--download-link[href$=".pdf"]')
SelectDownloadLinks(page) ==
    SelectSeq(AllAnchors(page),
              LAMBDA a : a.cls /\ IsSome(a.href) /\ EndsWith(Get(a.href), PdfSuffix))

\* a.get('data-ga-action', '')
GetAction(a) == IF IsSome(a.action) THEN Get(a.action) ELSE << >>

\* the condition of line 88
ManualMatch(a) == Contains(Lower(GetAction(a)), KwManual)

\* a filter that also looks for "datasheet" in the tracking attribute
DatasheetMatchByAction(a) ==
    \/ Contains(Lower(GetAction(a)), KwFichaTecnica)
    \/ Contains(Lower(GetAction(a)), KwDatasheet)
    \/ Contains(Lower(Get(a.href)), KwDatasheet)

\* the condition of line 94
DatasheetMatch(a) ==
    \/ Contains(Lower(GetAction(a)), KwFichaTecnica)
    \/ Contains(Lower(Get(a.href)), KwDatasheet)

RECURSIVE AppendManuals(_, _)
\* the loop of lines 87-89
AppendManuals(list, as) ==
    IF as = << >> THEN list
    ELSE AppendManuals(IF ManualMatch(Head(as))
                       THEN Append(list, Doc(None, Get(Head(as).href)))
                       ELSE list, Tail(as))

RECURSIVE AppendDatasheets(_, _)
\* the loop of lines 93-95
AppendDatasheets(list, as) ==
    IF as = << >> THEN list
    ELSE AppendDatasheets(IF DatasheetMatch(Head(as))
                          THEN Append(list, Doc(None, Get(Head(as).href)))
                          ELSE list, Tail(as))

\* a fallback that runs whatever the first tier found
Always(list) == TRUE

\* `not manuals`, `not datasheets`
IsEmptyList(list) == list = << >>

\* a response that passes the list on as it is
KeepList(list) == Some(list)

\* `manuals or None`, `datasheets or None`
OrNone(list) == IF list = << >> THEN None ELSE Some(list)

\* a request model whose url is a plain string
AcceptAny(u) == TRUE

\* ScrapeRequest.url: HttpUrl, validated before scrape_pdfs is entered
RequestUrlOk(u) == HttpUrl(u)

\* Document.url: HttpUrl, validated for every element of both lists when the
\* ScrapeResponse is constructed
DocumentsOk(list) == \A i \in 1..Len(list) : HttpUrl(list[i].url)

(***************************************************************************)
(* The request, step by step.                                              *)
(***************************************************************************)
InitScrape ==
    /\ pc = "received"
    /\ url \in UrlPool
    /\ outcome = NoOutcome
    /\ fetchCount = 0
    /\ parseCount = 0
    /\ soup = EmptyPage
    /\ manuals = << >>
    /\ datasheets = << >>
    /\ ranFallback = [manuals |-> FALSE, datasheets |-> FALSE]
    /\ result = NoResult

\* the request body is validated against ScrapeRequest (lines 27-28, 41-42)
ValidateRequest ==
    /\ pc = "received"
    /\ IF RequestUrlOk(url)
       THEN pc' = "fetch" /\ UNCHANGED result
       ELSE pc' = "done" /\ result' = RequestValidationError
    /\ UNCHANGED <<url, outcome, fetchCount, parseCount, soup, manuals, datasheets,
                   ranFallback>>

\* lines 44-50
Fetch ==
    /\ pc = "fetch"
    /\ \E o \in FetchOutcomes :
        /\ outcome' = o
        /\ fetchCount' = fetchCount + 1
        /\ IF FetchRaises(o)
           THEN pc' = "done" /\ result' = HTTPException(400, Describe(o))
           ELSE pc' = "parse" /\ UNCHANGED result
    /\ UNCHANGED <<url, parseCount, soup, manuals, datasheets, ranFallback>>

\* lines 53-56
Parse ==
    /\ pc = "parse"
    /\ soup' = outcome.text
    /\ parseCount' = parseCount + 1
    /\ manuals' = << >>
    /\ datasheets' = << >>
    /\ pc' = "tier1"
    /\ UNCHANGED <<url, outcome, fetchCount, ranFallback, result>>

\* lines 75-83
Tier1 ==
    /\ pc = "tier1"
    /\ manuals' = IF IsSome(soup.manuais) THEN extract_docs(Get(soup.manuais))
                  ELSE manuals
    /\ datasheets' = IF IsSome(soup.ficha) THEN extract_docs(Get(soup.ficha))
                     ELSE datasheets
    /\ pc' = "fallback"
    /\ UNCHANGED <<url, outcome, fetchCount, parseCount, soup, ranFallback, result>>

\* lines 85-95
Fallback ==
    /\ pc = "fallback"
    /\ manuals' = IF IsEmptyList(manuals)
                  THEN AppendManuals(manuals, SelectDownloadLinks(soup))
                  ELSE manuals
    /\ datasheets' = IF IsEmptyList(datasheets)
                     THEN AppendDatasheets(datasheets, SelectDownloadLinks(soup))
                     ELSE datasheets
    /\ ranFallback' = [manuals |-> IsEmptyList(manuals),
                       datasheets |-> IsEmptyList(datasheets)]
    /\ pc' = "respond"
    /\ UNCHANGED <<url, outcome, fetchCount, parseCount, soup, result>>

\* lines 97-101
Respond ==
    /\ pc = "respond"
    /\ result' = IF DocumentsOk(manuals) /\ DocumentsOk(datasheets)
                 THEN ScrapeResponse(OrNone(manuals), OrNone(datasheets))
                 ELSE ResponseValidationError
    /\ pc' = "done"
    /\ UNCHANGED <<url, outcome, fetchCount, parseCount, soup, manuals, datasheets,
                   ranFallback>>

Init ==
    /\ InitScrape
    /\ epc = "idle"
    /\ section_li = << >>
    /\ docs = << >>

Next ==
    \/ ValidateRequest /\ UNCHANGED extractVars
    \/ Fetch /\ UNCHANGED extractVars
    \/ Parse /\ UNCHANGED extractVars
    \/ Tier1 /\ UNCHANGED extractVars
    \/ Fallback /\ UNCHANGED extractVars
    \/ Respond /\ UNCHANGED extractVars

Spec == Init /\ [][Next]_vars

NextExtract == CallExtractDocs /\ UNCHANGED scrapeVars

SpecExtract == InitExtract /\ [][NextExtract]_vars

(***************************************************************************)
(* Properties.                                                             *)
(***************************************************************************)
\* both tiers have run for the request
Extracted == pc = "respond" \/ (pc = "done" /\ parseCount = 1)

Responded == pc = "done" /\ result.kind = "ScrapeResponse"

\* what structured extraction yields for a section that may be missing
Tier1Of(sec) == IF IsSome(sec) THEN extract_docs(Get(sec)) ELSE << >>

IsDownloadLink(a) == a.cls /\ IsSome(a.href) /\ EndsWith(Get(a.href), PdfSuffix)

ActionOf(a) == IF a.action = None THEN << >> ELSE Lower(Get(a.action))

PassesManuals(a) == Contains(ActionOf(a), KwManual)

PassesDatasheets(a) ==
    Contains(ActionOf(a), KwFichaTecnica) \/ Contains(Lower(Get(a.href)), KwDatasheet)

FallbackDocs(links) == [i \in 1..Len(links) |-> [title |-> None, url |-> Get(links[i].href)]]

ExpectedManuals(page) ==
    FallbackDocs(SelectSeq(AllAnchors(page),
                           LAMBDA a : IsDownloadLink(a) /\ PassesManuals(a)))

ExpectedDatasheets(page) ==
    FallbackDocs(SelectSeq(AllAnchors(page),
                           LAMBDA a : IsDownloadLink(a) /\ PassesDatasheets(a)))

\* C1: for each category the fallback loop is entered exactly when structured
\* extraction gave an empty list; when structured extraction gave at least one
\* document, the list of the category, and the list of the response, is the
\* structured list and nothing else.
T_C1_FallbackOnlyWhenTier1Empty ==
    Extracted =>
        /\ ranFallback.manuals <=> (Tier1Of(soup.manuais) = << >>)
        /\ ranFallback.datasheets <=> (Tier1Of(soup.ficha) = << >>)
        /\ Tier1Of(soup.manuais) # << >> =>
              /\ manuals = Tier1Of(soup.manuais)
              /\ Responded => result.manuals = Some(Tier1Of(soup.manuais))
        /\ Tier1Of(soup.ficha) # << >> =>
              /\ datasheets = Tier1Of(soup.ficha)
              /\ Responded => result.datasheets = Some(Tier1Of(soup.ficha))

\* a response whose manuals come from the section although the page has links
\* that pass the manuals fallback filter, while datasheets come from fallback
W_C1_Tier1WinsOverMatchingLinks ==
    /\ Responded
    /\ Tier1Of(soup.manuais) # << >>
    /\ ExpectedManuals(soup) # << >>
    /\ ExpectedManuals(soup) # Tier1Of(soup.manuais)
    /\ ~ranFallback.manuals
    /\ ranFallback.datasheets
    /\ result.datasheets # None

\* C2: in every response each of manuals and datasheets is None or a non-empty
\* list, and a category whose list is empty after both tiers is None whether
\* or not its section exists on the page.
T_C2_EmptyListIsNone ==
    Responded =>
        /\ result.manuals = None \/ (IsSome(result.manuals) /\ Get(result.manuals) # << >>)
        /\ result.datasheets = None
              \/ (IsSome(result.datasheets) /\ Get(result.datasheets) # << >>)
        /\ manuals = << >> => result.manuals = None
        /\ datasheets = << >> => result.datasheets = None

\* a response for a page with an empty manuals section and no datasheets section
W_C2_EmptySectionAndMissingSection ==
    /\ Responded
    /\ IsSome(soup.manuais)
    /\ manuals = << >>
    /\ ~IsSome(soup.ficha)
    /\ result.manuals = None
    /\ result.datasheets = None

\* the title the claim expects of a title span: its text without the nested
\* fragments, trimmed
TitleWithoutDate(span) ==
    Strip(Join(Strings(SelectSeq(span, LAMBDA c : ~c.nested))))

\* the date the claim expects: the trimmed text of the nested fragment, or None
DateOf(span) ==
    LET frag == SelectSeq(span, LAMBDA c : c.nested)
    IN  IF frag = << >> THEN None ELSE Some(Strip(Head(frag).text))

DocDate(d) == IF "date" \in DOMAIN d THEN d.date ELSE None

\* the rows of a section that extract_docs can use, in table order
UsableRows(rows) ==
    SelectSeq(rows, LAMBDA tr : /\ tr.unstriped
                                /\ IsSome(tr.span)
                                /\ \E i \in 1..Len(tr.anchors) : IsSome(tr.anchors[i].href))

\* C3: every document of extract_docs has as title the text of the title span
\* without its nested date fragment, trimmed, and as date that fragment's
\* trimmed text, or no date when the span has no such fragment.
CE_C3_TitleExcludesDate ==
    epc = "return" =>
        /\ Len(docs) = Len(UsableRows(section_li))
        /\ \A k \in 1..Len(docs) :
              /\ docs[k].title = Some(TitleWithoutDate(Get(UsableRows(section_li)[k].span)))
              /\ DocDate(docs[k]) = DateOf(Get(UsableRows(section_li)[k].span))

\* what the claim counts as a failed fetch
FetchFailed(o) ==
    \/ o.kind \in {"ConnectionError", "Timeout"}
    \/ o.kind = "Response" /\ ~(200 <= o.status /\ o.status < 300)

\* C4: when the fetch fails (network error, non-success status, timeout) the
\* request ends with HTTP 400 carrying the error's description, after exactly
\* one fetch, without parsing, extracting or producing a response.
CE_C4_FetchFailureEndsRequest ==
    (fetchCount > 0 /\ FetchFailed(outcome)) =>
        /\ pc = "done"
        /\ fetchCount = 1
        /\ parseCount = 0
        /\ result.kind = "HTTPException"
        /\ result.status = 400
        /\ result.detail.cause = Describe(outcome)

\* C5: once the fetch has succeeded the request always ends with a
\* ScrapeResponse, whatever the page contains.
CE_C5_ExtractionNeverFails ==
    (pc = "done" /\ fetchCount = 1 /\ ~FetchRaises(outcome)) =>
        result.kind = "ScrapeResponse"

\* C6: a fetch happens only for a request whose url passed validation; a
\* request with a malformed url ends with a client error and no fetch.
T_C6_ValidationBeforeFetch ==
    /\ (fetchCount > 0 \/ pc \in {"fetch", "parse", "tier1", "fallback", "respond"})
          => HttpUrl(url)
    /\ (pc = "done" /\ ~HttpUrl(url)) =>
          /\ result.kind = "RequestValidationError"
          /\ 400 <= result.status /\ result.status < 500
          /\ fetchCount = 0
          /\ parseCount = 0

\* a request with a malformed url that has ended
W_C6_MalformedUrlRejected ==
    /\ pc = "done"
    /\ ~HttpUrl(url)
    /\ url # << >>
    /\ result.kind = "RequestValidationError"
    /\ fetchCount = 0

\* C7: a page with a manuals section and no datasheets section gives manuals
\* populated and datasheets absent, and symmetrically, and is not an error.
\* Stated for the pages most favourable to the claim: the section that exists
\* yields at least one document and no link passes the other category's
\* fallback filter.
CE_C7_CategoryIndependence ==
    /\ (pc = "done" /\ parseCount = 1 /\ ~IsSome(soup.ficha)
          /\ Tier1Of(soup.manuais) # << >> /\ ExpectedDatasheets(soup) = << >>) =>
          /\ result.kind = "ScrapeResponse"
          /\ result.manuals # None
          /\ result.datasheets = None
    /\ (pc = "done" /\ parseCount = 1 /\ ~IsSome(soup.manuais)
          /\ Tier1Of(soup.ficha) # << >> /\ ExpectedManuals(soup) = << >>) =>
          /\ result.kind = "ScrapeResponse"
          /\ result.datasheets # None
          /\ result.manuals = None

\* the first link with a reference of a row
FirstHref(tr) ==
    LET i == CHOOSE i \in 1..Len(tr.anchors) :
                 /\ IsSome(tr.anchors[i].href)
                 /\ \A j \in 1..(i - 1) : ~IsSome(tr.anchors[j].href)
    IN  Get(tr.anchors[i].href)

\* the positions in a section of the rows that have a title span and a link
\* with a reference and lie in the unstriped table
UsableAt(rows) ==
    {i \in 1..Len(rows) :
        /\ rows[i].unstriped
        /\ rows[i].span # None
        /\ \E j \in 1..Len(rows[i].anchors) : rows[i].anchors[j].href # None}

\* the k-th smallest element of a set of numbers
Kth(S, k) == CHOOSE i \in S : Cardinality({j \in S : j <= i}) = k

\* C8: extract_docs returns one document per usable row, in row order, each
\* with the reference of the row's first link; other rows add nothing and do
\* not end the loop; nothing is sorted or dropped as a duplicate.
T_C8_OneDocPerUsableRow ==
    epc = "return" =>
        /\ Len(docs) = Cardinality(UsableAt(section_li))
        /\ \A k \in 1..Len(docs) :
              docs[k].url = FirstHref(section_li[Kth(UsableAt(section_li), k)])

\* a section whose first row cannot be used and whose second row can
W_C8_SkippedRowThenUsedRow ==
    /\ epc = "return"
    /\ Len(section_li) = 2
    /\ section_li[1].unstriped
    /\ UsableAt(section_li) = {2}
    /\ Len(docs) = 1

\* C9: a fallback that ran gives, in page order, one document with no title
\* per link that has the download-link class, a reference ending in ".pdf"
\* and passes the category's filter; a missing tracking attribute counts as
\* an empty one.
T_C9_FallbackResult ==
    Extracted =>
        /\ ranFallback.manuals => manuals = ExpectedManuals(soup)
        /\ ranFallback.datasheets => datasheets = ExpectedDatasheets(soup)

\* a datasheets fallback that found two different links, one of them without
\* a tracking attribute, on a page that also has a link without the class
W_C9_TwoFallbackLinksInOrder ==
    /\ pc = "done"
    /\ parseCount = 1
    /\ ranFallback.datasheets
    /\ Len(datasheets) = 2
    /\ datasheets[1].url # datasheets[2].url
    /\ datasheets[1].title = None
    /\ \E i \in 1..Len(soup.links) : soup.links[i].action = None
    /\ \E i \in 1..Len(AllAnchors(soup)) : ~AllAnchors(soup)[i].cls

\* the link of end-to-end scenario C: a download link whose tracking attribute
\* contains "datasheet" and whose reference does not
IsScenarioCLink(a) ==
    /\ IsDownloadLink(a)
    /\ Contains(ActionOf(a), KwDatasheet)
    /\ ~Contains(Lower(Get(a.href)), KwDatasheet)

ScenarioCLinks(page) == SelectSeq(AllAnchors(page), IsScenarioCLink)

\* C10 as stated: on a page without a "ficha-tecnica" section, the datasheets
\* list that scrape_pdfs returns contains every such link, with no title and
\* the link's reference as url.
CE_C10_ScenarioC ==
    (Extracted /\ ~IsSome(soup.ficha)) =>
        \A i \in 1..Len(ScenarioCLinks(soup)) :
            \E k \in 1..Len(datasheets) :
                datasheets[k] = [title |-> None, url |-> Get(ScenarioCLinks(soup)[i].href)]

\* C10 as amended: on a page without a "ficha-tecnica" section, a download
\* link whose tracking attribute contains "datasheet" but not "ficha-tecnica"
\* and whose reference does not contain "datasheet" is not taken by the
\* datasheets fallback: when no download link of the page has "ficha-tecnica"
\* in its tracking attribute or "datasheet" in its reference, the datasheets
\* list is empty and a response carries datasheets as None.
T_C10_ScenarioCLinkIgnored ==
    (Extracted /\ ~IsSome(soup.ficha) /\ ScenarioCLinks(soup) # << >>
        /\ ExpectedDatasheets(soup) = << >>) =>
        /\ datasheets = << >>
        /\ Responded => result.datasheets = None

\* a response with datasheets None for a page that has such a link
W_C10_ScenarioCGivesNone ==
    /\ Responded
    /\ ~IsSome(soup.ficha)
    /\ ScenarioCLinks(soup) # << >>
    /\ ranFallback.datasheets
    /\ result.datasheets = None

====
